---- MODULE Spec2Model ----
(***************************************************************************)
(* A model of the stdio <-> HTTP/SSE bridge scripts of the repository:     *)
(*   - http_mcp_wrapper.py  the threaded gateway (ThreadingTCPServer),     *)
(*   - http_wrapper.py      the single-threaded gateway (HTTPServer),      *)
(*   - stdio_test.py        the stdio client GitHubMCPClient.              *)
(* All three drive one child process ("github-mcp-server stdio") over its  *)
(* stdin/stdout pipes with newline-delimited JSON-RPC.  The variable prog  *)
(* says which script a behaviour is a run of.                              *)
(***************************************************************************)
EXTENDS Integers, Sequences, FiniteSets, TLC

(***************************************************************************)
(* Bounds of the model.                                                    *)
(***************************************************************************)
\* Number of requests (handler threads / successive calls) of one run.
NumHandlers == 2
\* Number of times a child process may exit on its own during one run.
MaxExits == 2

Handlers == 1..NumHandlers

(***************************************************************************)
(* JSON values.  Every value is a record tagged by its kind, so that a     *)
(* string, a number, a mapping and a list are never equal to each other.   *)
(***************************************************************************)
JStr(s) == [k |-> "str", s |-> s]
JNum(n) == [k |-> "num", n |-> n]
JObj(o) == [k |-> "obj", o |-> o]
JArr(a) == [k |-> "arr", a |-> a]

IsObj(v) == v.k = "obj"
IsArr(v) == v.k = "arr"
\* Python's `key in d` for a mapping d.
HasKey(v, key) == IsObj(v) /\ key \in DOMAIN v.o
\* Python's d.get(key, default) for a mapping d.
Get(v, key, default) == IF HasKey(v, key) THEN v.o[key] ELSE default

(***************************************************************************)
(* Texts.  A text is a TLA+ string holding the characters of the line or   *)
(* of the `text` member.  The child process writes compact JSON (no space  *)
(* after "," and ":"); Python's json.dumps writes ", " and ": ".           *)
(***************************************************************************)
\* Texts carried in the `text` member of a content item.
T_login == "{\"login\":\"octocat\"}"
T_plain == "plain"
\* A text that is JSON for a mapping that has a `content` list of its own.
T_nested == "{\"content\":[{\"type\":\"text\",\"text\":\"{\\\"login\\\":\\\"octocat\\\"}\"}]}"

\* Reply lines as the child process writes them on its stdout.
L_json == "{\"jsonrpc\":\"2.0\",\"id\":\"1\",\"result\":{\"content\":[{\"type\":\"text\",\"text\":\"{\\\"login\\\":\\\"octocat\\\"}\"}]}}"
L_plain == "{\"jsonrpc\":\"2.0\",\"id\":\"1\",\"result\":{\"content\":[{\"type\":\"text\",\"text\":\"plain\"}]}}"
L_nested == "{\"jsonrpc\":\"2.0\",\"id\":\"1\",\"result\":{\"content\":[{\"type\":\"text\",\"text\":\"{\\\"content\\\":[{\\\"type\\\":\\\"text\\\",\\\"text\\\":\\\"{\\\\\\\"login\\\\\\\":\\\\\\\"octocat\\\\\\\"}\\\"}]}\"}]}}"
L_tools == "{\"jsonrpc\":\"2.0\",\"id\":\"1\",\"result\":{\"tools\":[{\"name\":\"get_me\"}]}}"
L_error == "{\"jsonrpc\":\"2.0\",\"id\":\"1\",\"error\":{\"code\":-32603,\"message\":\"boom\"}}"
L_error_nocode == "{\"jsonrpc\":\"2.0\",\"id\":\"1\",\"error\":{\"message\":\"boom\"}}"
L_error_minus1 == "{\"jsonrpc\":\"2.0\",\"id\":\"1\",\"error\":{\"code\":-1,\"message\":\"boom\"}}"
L_noresult == "{\"jsonrpc\":\"2.0\",\"id\":\"1\"}"
L_garbage == "panic: runtime error"

\* The same envelopes as json.dumps writes them.
P_json == "{\"jsonrpc\": \"2.0\", \"id\": \"1\", \"result\": {\"content\": [{\"type\": \"text\", \"text\": \"{\\\"login\\\":\\\"octocat\\\"}\"}]}}"
P_plain == "{\"jsonrpc\": \"2.0\", \"id\": \"1\", \"result\": {\"content\": [{\"type\": \"text\", \"text\": \"plain\"}]}}"
P_nested == "{\"jsonrpc\": \"2.0\", \"id\": \"1\", \"result\": {\"content\": [{\"type\": \"text\", \"text\": \"{\\\"content\\\":[{\\\"type\\\":\\\"text\\\",\\\"text\\\":\\\"{\\\\\\\"login\\\\\\\":\\\\\\\"octocat\\\\\\\"}\\\"}]}\"}]}}"
P_tools == "{\"jsonrpc\": \"2.0\", \"id\": \"1\", \"result\": {\"tools\": [{\"name\": \"get_me\"}]}}"
P_error_nocode == "{\"jsonrpc\": \"2.0\", \"id\": \"1\", \"error\": {\"message\": \"boom\"}}"
P_error_minus1 == "{\"jsonrpc\": \"2.0\", \"id\": \"1\", \"error\": {\"code\": -1, \"message\": \"boom\"}}"
P_noresult == "{\"jsonrpc\": \"2.0\", \"id\": \"1\"}"
P_error == "{\"jsonrpc\": \"2.0\", \"id\": \"1\", \"error\": {\"code\": -32603, \"message\": \"boom\"}}"

\* The values those texts denote.
TextItem(t) == JObj([type |-> JStr("text"), text |-> JStr(t)])
V_login == JObj([login |-> JStr("octocat")])
R_json == JObj([content |-> JArr(<<TextItem(T_login)>>)])
R_plain == JObj([content |-> JArr(<<TextItem(T_plain)>>)])
R_nested == JObj([content |-> JArr(<<TextItem(T_nested)>>)])
R_tools == JObj([tools |-> JArr(<<JObj([name |-> JStr("get_me")])>>)])
E_boom == JObj([code |-> JNum(-32603), message |-> JStr("boom")])
E_nocode == JObj([message |-> JStr("boom")])
E_minus1 == JObj([code |-> JNum(-1), message |-> JStr("boom")])
NoResultEnvelope == JObj([jsonrpc |-> JStr("2.0"), id |-> JStr("1")])
ResultEnvelope(r) == JObj([jsonrpc |-> JStr("2.0"), id |-> JStr("1"), result |-> r])
ErrorEnvelope(e) == JObj([jsonrpc |-> JStr("2.0"), id |-> JStr("1"), error |-> e])

\* The lines the child process may write as the reply to a request.
ReplyTexts == {L_json, L_plain, L_nested, L_tools, L_error, L_error_nocode, L_error_minus1,
               L_noresult, L_garbage}

\* json.loads: [ok |-> TRUE, v |-> value], or [ok |-> FALSE, msg |-> str(e)]
\* of the JSONDecodeError it raises.
ParseError == [ok |-> FALSE, msg |-> "Expecting value: line 1 column 1 (char 0)"]
Parsed(v) == [ok |-> TRUE, v |-> v]
Loads(t) ==
    CASE t \in {L_json, P_json} -> Parsed(ResultEnvelope(R_json))
      [] t \in {L_plain, P_plain} -> Parsed(ResultEnvelope(R_plain))
      [] t \in {L_nested, P_nested} -> Parsed(ResultEnvelope(R_nested))
      [] t \in {L_tools, P_tools} -> Parsed(ResultEnvelope(R_tools))
      [] t \in {L_error, P_error} -> Parsed(ErrorEnvelope(E_boom))
      [] t \in {L_error_nocode, P_error_nocode} -> Parsed(ErrorEnvelope(E_nocode))
      [] t \in {L_error_minus1, P_error_minus1} -> Parsed(ErrorEnvelope(E_minus1))
      [] t \in {L_noresult, P_noresult} -> Parsed(NoResultEnvelope)
      [] t = T_login -> Parsed(V_login)
      [] t = T_nested -> Parsed(R_json)
      [] t = "{}" -> Parsed(JObj(<<>>))
      [] OTHER -> ParseError

\* json.dumps of the values the gateways serialise into an SSE event.
Dumps(v) ==
    CASE v = ResultEnvelope(R_json) -> P_json
      [] v = ResultEnvelope(R_plain) -> P_plain
      [] v = ResultEnvelope(R_nested) -> P_nested
      [] v = ResultEnvelope(R_tools) -> P_tools
      [] v = ErrorEnvelope(E_boom) -> P_error
      [] v = ErrorEnvelope(E_nocode) -> P_error_nocode
      [] v = ErrorEnvelope(E_minus1) -> P_error_minus1
      [] v = NoResultEnvelope -> P_noresult

(***************************************************************************)
(* call_mcp_tool of http_mcp_wrapper.py, from the line it read to the      *)
(* value it returns (lines 133-170).                                       *)
(***************************************************************************)
JNull == [k |-> "null"]
EmptyObj == JObj(<<>>)
ErrorBody(msg) == JObj([error |-> JStr(msg)])

\* The index of the first item of `items` whose type is "text", 0 if none.
FirstTextIndex(items) ==
    LET hits == {i \in 1..Len(items) : Get(items[i], "type", JNull) = JStr("text")}
    IN  IF hits = {} THEN 0 ELSE CHOOSE i \in hits : \A j \in hits : i <= j

\* Lines 164: what call_mcp_tool returns for a text that is not JSON.
UnparsedText(text) == JObj([text |-> JStr(text)])

\* An unwrapping that is applied again to the value the text parsed to.
UnwrapText(result) ==
    IF HasKey(result, "content") /\ IsArr(result.o.content)
    THEN LET items == result.o.content.a
             i == FirstTextIndex(items)
         IN  IF i = 0 THEN result
             ELSE LET text == Get(items[i], "text", JStr("")).s
                      p == Loads(text)
                  IN  IF p.ok THEN p.v ELSE UnparsedText(text)
    ELSE result
CallMcpToolNormalizeTwice(result) == UnwrapText(UnwrapText(result))

\* Lines 149-166: the unwrapping of `result`.
CallMcpToolNormalize(result) ==
    IF HasKey(result, "content") /\ IsArr(result.o.content)
    THEN LET items == result.o.content.a
             i == FirstTextIndex(items)
         IN  IF i = 0 THEN result
             ELSE LET text == Get(items[i], "text", JStr("")).s
                      p == Loads(text)
                  IN  IF p.ok THEN p.v ELSE UnparsedText(text)
    ELSE result

\* Lines 143-147: the error value for a JSON-RPC error reply.
CallMcpToolError(error) ==
    ErrorBody(Get(error, "message", JStr("Unknown error")).s \o " (code "
              \o ToString(Get(error, "code", JNum(-1)).n) \o ")")

\* Lines 133-170: `line` is the text readline returned, "" at end of file.
CallMcpToolReturn(line) ==
    IF line = "" THEN ErrorBody("No response from MCP server")
    ELSE LET p == Loads(line)
         IN  IF ~p.ok THEN ErrorBody(p.msg)
             ELSE IF HasKey(p.v, "error") THEN CallMcpToolError(p.v.o.error)
             ELSE CallMcpToolNormalize(Get(p.v, "result", EmptyObj))

\* Lines 236-262 of do_GET (/tools): [status, body] for the line read.
GetToolsReturn(line) ==
    IF line = "" THEN [status |-> 500, body |-> ErrorBody("No response from MCP server")]
    ELSE LET p == Loads(line)
         IN  IF ~p.ok THEN [status |-> 500, body |-> ErrorBody(p.msg)]
             ELSE [status |-> 200, body |-> Get(p.v, "result", EmptyObj)]


(***************************************************************************)
(* State.                                                                  *)
(***************************************************************************)
VARIABLES
    prog,         \* the script that runs
    mcp_process,  \* the global handle: 0 is None, g > 0 the g-th process launched
    started,      \* number of processes launched so far
    running,      \* the launched processes that have not exited
    stdin,        \* the request lines in the stdin pipe of the handle's process,
                  \* oldest first: each is named by the handler that wrote it
    stdout,       \* the reply lines in its stdout pipe, oldest first: each is
                  \* named by the handler whose request it answers
    nw,           \* number of request lines written to the handle's process
    nr,           \* number of reply lines read from the handle's process
    pc,           \* per handler: where it is in its code
    ep,           \* per handler: the request it serves
    sent,         \* per handler: process and ordinal of the request line it wrote
    out,          \* the answer completed by the last step, NoOut if it completed none
    launch,       \* argument list and environment of the last Popen
    main,         \* the statement main has reached
    httpd,        \* main's local variable httpd: 0 is unbound, 1 the server object
    signals,      \* the signals stop_mcp_server has sent to the handle's process
    readers,      \* the read_stderr threads of http_wrapper.py that have not
                  \* ended, oldest first: each is named by the process it was
                  \* started for
    fallback      \* the call of HTTPMCPClient.call_tool that fell back to POST /sse:
                  \* the handler of its POST /sse, NoFallback when none has

procVars == <<mcp_process, started, running, stdin, stdout, nw, nr, launch>>
\* http_wrapper.py starts a read_stderr thread with each process that passes
\* its poll (lines 162-171): main's call of start_mcp_server has done so.  The
\* threads of http_mcp_wrapper.py (lines 72-81), which run the same loop, are
\* not followed.
InitReaders == IF prog = "http_wrapper" THEN <<1>> ELSE <<>>
mainVars == <<main, httpd, signals, fallback>>
vars == <<prog, mcp_process, started, running, stdin, stdout, nw, nr,
          pc, ep, sent, out, launch, main, httpd, signals, readers, fallback>>

Programs == {"http_mcp_wrapper", "http_wrapper", "stdio_test", "processor",
             "response_parser_demo", "simple_stdio_test", "token_helper"}
\* The programs that launch no child process.
NoChild == {"processor", "response_parser_demo", "token_helper"}

NoBody == [k |-> "none"]
NoSent == [gen |-> 0, no |-> 0]
\* readline has not returned.
NoLine == [text |-> "", re |-> 0, gen |-> 0, no |-> 0]
NoOut == [h |-> 0]
\* No call of HTTPMCPClient.call_tool has fallen back.
NoFallback == 0
\* The body of the request has no `id` member.
NoId == "none"

\* The token main read (get_github_token, http_mcp_wrapper.py 457, http_wrapper.py
\* 202; stdio_test.py 92), and the environment the script itself runs in.
token == "ghp_token"
Environ == [PATH |-> "/usr/bin", HOME |-> "/home/user"]

\* The arguments of subprocess.Popen in start_mcp_server (http_mcp_wrapper.py
\* 43-57, http_wrapper.py 139-152) and start_server (stdio_test.py 98-111): the
\* argument list, and a copy of the environment with one entry added.
PopenArgs == <<"./github-mcp-server", "stdio">>
PopenEnv ==
    [k \in DOMAIN Environ \cup {"GITHUB_PERSONAL_ACCESS_TOKEN"} |->
       IF k = "GITHUB_PERSONAL_ACCESS_TOKEN" THEN token ELSE Environ[k]]

\* The expressions whose values the gateways put into the messages they pass
\* to log and debug (every call of log and debug in http_mcp_wrapper.py and
\* http_wrapper.py), and the files the gateways open for writing: none.
LoggedExpressions ==
    {"stderr_output", "mcp_process.pid", "e", "line.strip()", "request_str",
     "response_str", "self.address_string()", "format % args", "post_data",
     "request_body", "method", "request_id", "error_message", "args.port"}
FilesWritten == {}

\* main has called start_mcp_server, which returned True (http_mcp_wrapper.py
\* 464-466, http_wrapper.py 208-210), and is about to create its HTTP server;
\* GitHubMCPClient.__enter__ (stdio_test.py 255-258) has called start_server and
\* main is inside its `with` block.  The process may exit at any later moment.
\* simple_stdio_test.py has started its process and found it running (lines
\* 29-48) and is inside its try block.
\* The quote engine (rukn_altasawoq/quote_engine/processor.py) has no child
\* process: its functions are called, and that is all.  Nor has
\* response_parser_demo.py, whose main applies parse_response to responses it
\* builds itself, nor token_helper.py, a module of functions.
Init ==
    /\ prog \in Programs
    /\ mcp_process = IF prog \in NoChild THEN 0 ELSE 1
    /\ started = IF prog \in NoChild THEN 0 ELSE 1
    /\ running = IF prog \in NoChild THEN {} ELSE {1}
    /\ stdin = <<>>
    /\ stdout = <<>>
    /\ nw = 0
    /\ nr = 0
    /\ pc = [h \in Handlers |-> "idle"]
    /\ ep = [h \in Handlers |-> "none"]
    /\ sent = [h \in Handlers |-> NoSent]
    /\ out = NoOut
    /\ launch = [args |-> PopenArgs, env |-> PopenEnv]
    /\ main = IF prog \in {"stdio_test", "simple_stdio_test"} \cup NoChild
              THEN "serve" ELSE "create"
    /\ httpd = 0
    /\ signals = <<>>
    /\ readers = InitReaders
    /\ fallback = NoFallback

(***************************************************************************)
(* The child process and the pipes.                                        *)
(***************************************************************************)
\* mcp_process is set and mcp_process.poll() is None.
Alive == mcp_process # 0 /\ mcp_process \in running

\* The child reads the oldest request line and writes one reply line for it.
\* Which of ReplyTexts the line is, is chosen where the line is read: nothing
\* looks at a line before that.
ProcReply ==
    /\ Alive
    /\ stdin # <<>>
    /\ stdout' = Append(stdout, Head(stdin))
    /\ stdin' = Tail(stdin)
    /\ out' = NoOut
    /\ UNCHANGED <<prog, readers, mcp_process, started, running, nw, nr, pc, ep, sent, launch, mainVars>>

\* The handle's process exits on its own (crash, kill from outside).  Request
\* lines it has not consumed are lost; lines it already wrote stay readable.
ProcExit ==
    /\ Alive
    /\ started - Cardinality(running) < MaxExits
    /\ running' = running \ {mcp_process}
    /\ out' = NoOut
    /\ UNCHANGED <<prog, readers, mcp_process, started, stdin, stdout, nw, nr, pc, ep, sent, launch, mainVars>>

\* mcp_process.stdin.write(request_str); flush(): the line is in the pipe, or
\* BrokenPipeError when the process has exited.
CanWrite == Alive
WriteLine(h) ==
    /\ stdin' = Append(stdin, h)
    /\ nw' = nw + 1
    /\ sent' = [sent EXCEPT ![h] = [gen |-> mcp_process, no |-> nw + 1]]
    /\ UNCHANGED <<mcp_process, started, running, stdout, nr, launch>>
BrokenPipe == "[Errno 32] Broken pipe"

\* mcp_process.stdout.readline() returns: the oldest line in the pipe, or ""
\* once the process has exited and the pipe is empty; it blocks otherwise.
CanRead == mcp_process # 0 /\ (stdout # <<>> \/ ~Alive)
LineRead(t) ==
    IF stdout # <<>>
    THEN [text |-> t, re |-> Head(stdout), gen |-> mcp_process, no |-> nr + 1]
    ELSE [text |-> "", re |-> 0, gen |-> mcp_process, no |-> 0]
ReadLine ==
    /\ stdout' = IF stdout # <<>> THEN Tail(stdout) ELSE stdout
    /\ nr' = IF stdout # <<>> THEN nr + 1 ELSE nr
    /\ UNCHANGED <<mcp_process, started, running, stdin, nw, launch>>

\* A start that hands the token to the child on its command line.
PopenTokenInArgs ==
    /\ started' = started + 1
    /\ mcp_process' = started + 1
    /\ running' = running \cup {started + 1}
    /\ stdin' = <<>>
    /\ stdout' = <<>>
    /\ nw' = 0
    /\ nr' = 0
    /\ launch' = [args |-> PopenArgs \o <<"--token", token>>, env |-> Environ]

\* subprocess.Popen of start_mcp_server (http_mcp_wrapper.py 49-57): a new
\* process with new pipes, and the global handle refers to it at once.
Popen ==
    /\ started' = started + 1
    /\ mcp_process' = started + 1
    /\ running' = running \cup {started + 1}
    /\ stdin' = <<>>
    /\ stdout' = <<>>
    /\ nw' = 0
    /\ nr' = 0
    /\ launch' = [args |-> PopenArgs, env |-> PopenEnv]

\* read_stderr of http_wrapper.py (lines 163-167), the test of its loop: the
\* thread reads the global handle anew each time round, and ends when the
\* handle it finds names a process that has exited.  While that process runs
\* the thread goes on to readline on the stderr of that process, whichever
\* process it was started for.  The thread comes to the test when readline
\* returns, at any moment after the process whose stderr it reads has exited:
\* nothing orders the test and the next Popen of a handler.
ReadStderrEnds ==
    /\ readers # <<>>
    /\ ~Alive
    /\ readers' = Tail(readers)
    /\ out' = NoOut
    /\ UNCHANGED <<prog, procVars, pc, ep, sent, mainVars>>

(***************************************************************************)
(* Handlers.                                                               *)
(***************************************************************************)
\* The server runs handlers while main is inside serve_forever (inside the
\* `with` block of stdio_test.py).
Serving == main = "serve"

\* Requests are numbered in the order in which the server accepts them:
\* the server accepts requests, handler h has not begun, and every request
\* before it has been accepted.
Idle(h) == Serving /\ pc[h] = "idle" /\ \A g \in 1..(h - 1) : pc[g] # "idle"

\* Handler h goes on to `next`; no answer is complete.
Goto(h, next) ==
    /\ Serving
    /\ pc' = [pc EXCEPT ![h] = next]
    /\ out' = NoOut
    /\ UNCHANGED mainVars

\* Handler h ends: `st` and `b` are the HTTP status and JSON body it sent,
\* `evs` the SSE events its client received, `line` what its readline
\* returned, `ab` whether it ended with an exception on a write to its client,
\* `req` what was taken from the request for the answer (NoId when nothing).
Finish(h, e, req, st, b, evs, line, ab) ==
    /\ Serving
    /\ UNCHANGED mainVars
    /\ out' = [h |-> h, ep |-> e, status |-> st, body |-> b, events |-> evs,
               sent |-> sent[h], got |-> line, aborted |-> ab, req |-> req]
    /\ pc' = [pc EXCEPT ![h] = "done"]
    /\ ep' = [ep EXCEPT ![h] = "none"]
    /\ sent' = [sent EXCEPT ![h] = NoSent]

\* An answer for which nothing of the request is recorded.
Complete(h, e, st, b, evs, line, ab) == Finish(h, e, NoId, st, b, evs, line, ab)

\* self.send_response(st); ...; self.wfile.write(json.dumps(b).encode()); return
Respond(h, e, st, b, line) == Complete(h, e, st, b, <<>>, line, FALSE)

(***************************************************************************)
(* http_mcp_wrapper.py: one handler thread per request (ThreadingTCPServer,*)
(* main, line 471).  There is no lock anywhere in the file: the steps of   *)
(* different handlers interleave freely.                                   *)
(***************************************************************************)
Threaded == prog = "http_mcp_wrapper"

\* The event send_sse_error writes (lines 433-444).
SseErrorText(id, msg) ==
    "{\"jsonrpc\": \"2.0\", \"id\": \"" \o id \o "\", \"error\": {\"code\": -32000, \"message\": \""
    \o msg \o "\"}}"
ErrorEvent(msg) == [event |-> "error", data |-> SseErrorText("1", msg)]
DataEvent(text) == [event |-> "data", data |-> text]
EndEvent == [event |-> "end", data |-> "end"]

\* The `id` member of the body of a POST /sse: an id the caller chose (the
\* clients of the repository send "1", or "test-" and the time in seconds), or
\* NoId when the body has none.
CallerIds == {"1", "test-1762000000"}
SuppliedIds == CallerIds \cup {NoId}

\* str(uuid.uuid4()) (line 344) and str(time.time()) (lines 112 and 219) in
\* the request of handler h.  Two requests are taken to get different values:
\* the clock is read to a fraction of a microsecond.
Uuid4(h) == "uuid4-" \o ToString(h)
TimeId(h) == "1762000000." \o ToString(h)

\* handle_sse_request, line 344: request_data.get("id", str(uuid.uuid4())).
SseRequestId(supplied, h) == IF supplied = NoId THEN Uuid4(h) ELSE supplied

\* The ids the request line of handler h can carry: the caller's body is not
\* looked at again once the line is built, so the id is drawn where it matters.
RequestIds(h) ==
    IF ep[h] = "POST /sse" THEN {SseRequestId(s, h) : s \in SuppliedIds} ELSE {TimeId(h)}

\* A socket on which the write of send_sse_error succeeds after an earlier
\* write raised: the error event reaches the client after `evs`.
ClientGoneErrorDelivered(h, evs, line) ==
    Complete(h, ep[h], 200, NoBody, Append(evs, ErrorEvent(BrokenPipe)), line, FALSE)

\* A write to the client of an event stream (self.wfile.write, flush) raises
\* once the client has gone.  An exception raised inside the try block of
\* stream_sse_response leads to send_sse_error (line 429); a broken socket
\* stays broken, so the write of send_sse_error raises as well and the
\* exception ends the handler: the client has received `evs` and no more.
ClientGone(h, evs, line) == Complete(h, ep[h], 200, NoBody, evs, line, TRUE)

\* send_sse_error (lines 431-444) as the last statement of its caller: the
\* client receives the error event, or has gone.
SendSseError(h, e, msg, line) ==
    \/ Complete(h, e, 200, NoBody, <<ErrorEvent(msg)>>, line, FALSE)
    \/ Complete(h, e, 200, NoBody, <<>>, line, TRUE)

\* A health probe that pings the child process: it writes a request line.
DoGetHealthViaBackend(h) ==
    /\ Threaded
    /\ Idle(h)
    /\ CanWrite
    /\ stdin' = Append(stdin, h)
    /\ nw' = nw + 1
    /\ Respond(h, "GET /health", 200, JObj([status |-> JStr("ok")]), NoLine)
    /\ UNCHANGED <<prog, readers, mcp_process, started, running, stdout, nr, launch>>

\* do_GET, /health (lines 187-193).
DoGetHealth(h) ==
    /\ Threaded
    /\ Idle(h)
    /\ Respond(h, "GET /health", 200, JObj([status |-> JStr("ok")]), NoLine)
    /\ UNCHANGED <<prog, readers, procVars>>

\* do_GET, lines 264-268: a path that is none of /health, /user,
\* /search/repositories and /tools.
DoGetNotFound(h) ==
    /\ Threaded
    /\ Idle(h)
    /\ Respond(h, "GET unknown path", 404, ErrorBody("Not found"), NoLine)
    /\ UNCHANGED <<prog, readers, procVars>>

\* The requests do_POST answers itself: a body that is not JSON (lines
\* 280-288), a body for /sse without `jsonrpc` or without `method` (lines
\* 295-300), a body for /tools/call whose `name` is absent or empty (lines
\* 315-324), and a path that is neither /sse nor /tools/call (lines 333-337).
PostRejected ==
    {[ep |-> "POST body not JSON", status |-> 400, msg |-> "Invalid JSON"],
     [ep |-> "POST /sse without jsonrpc or method", status |-> 400,
      msg |-> "Invalid JSON-RPC request"],
     [ep |-> "POST /tools/call without name", status |-> 400, msg |-> "Tool name is required"],
     [ep |-> "POST unknown path", status |-> 404, msg |-> "Not found"]}

\* A do_POST that writes a request line to the child process before it
\* answers the request it rejects.
DoPostRejectedAfterWrite(h) ==
    /\ Threaded
    /\ Idle(h)
    /\ CanWrite
    /\ stdin' = Append(stdin, h)
    /\ nw' = nw + 1
    /\ \E r \in PostRejected : Respond(h, r.ep, r.status, ErrorBody(r.msg), NoLine)
    /\ UNCHANGED <<prog, readers, mcp_process, started, running, stdout, nr, launch>>

DoPostRejected(h) ==
    /\ Threaded
    /\ Idle(h)
    /\ \E r \in PostRejected : Respond(h, r.ep, r.status, ErrorBody(r.msg), NoLine)
    /\ UNCHANGED <<prog, readers, procVars>>

\* do_POST for a body that is JSON but not a mapping: for /tools/call (a
\* list, a string, a number, null) data.get raises AttributeError at line 316;
\* for /sse (a number, null) `"jsonrpc" not in data` raises TypeError at line
\* 295.  Nothing catches either: the handler ends without a status line or a
\* body.
DoPostNotMapping(h) ==
    /\ Threaded
    /\ Idle(h)
    /\ Finish(h, "POST body not a mapping", NoId, 0, NoBody, <<>>, NoLine, FALSE)
    /\ UNCHANGED <<prog, readers, procVars>>

\* call_mcp_tool, line 105: its first statement tests the handle.
CallMcpToolEnter(h) ==
    /\ Threaded
    /\ Idle(h)
    /\ ep' = [ep EXCEPT ![h] = "call_mcp_tool"]
    /\ Goto(h, IF Alive THEN "write" ELSE "popen")
    /\ UNCHANGED <<prog, readers, procVars, sent>>

\* do_GET, /user (lines 196-197).
DoGetUser(h) == CallMcpToolEnter(h)

\* do_GET, /search/repositories (lines 205-207).
DoGetSearchRepositories(h) == CallMcpToolEnter(h)

\* do_POST, /tools/call with a tool name (lines 315-326).
DoPostToolsCall(h) == CallMcpToolEnter(h)

\* start_mcp_server, lines 49-57: Popen, then the handler sleeps one second.
StartMcpServerPopen(h) ==
    /\ Threaded
    /\ pc[h] = "popen"
    /\ Popen
    /\ Goto(h, "grace")
    /\ UNCHANGED <<prog, readers, ep, sent>>

\* start_mcp_server, lines 63-85: poll() of the global handle after the sleep.
\* On False call_mcp_tool returns its error (line 107) and stream_sse_response
\* sends an error event (line 392).
StartMcpServerPoll(h) ==
    /\ Threaded
    /\ pc[h] = "grace"
    /\ IF Alive
       THEN /\ Goto(h, "write")
            /\ UNCHANGED <<ep, sent>>
       ELSE IF ep[h] = "call_mcp_tool"
            THEN Respond(h, ep[h], 200, ErrorBody("Failed to start MCP server"), NoLine)
            ELSE SendSseError(h, ep[h], "Failed to start MCP server", NoLine)
    /\ UNCHANGED <<prog, readers, procVars>>

\* call_mcp_tool, lines 126-127 (and 168-170 when the write raises).
CallMcpToolWrite(h) ==
    /\ Threaded
    /\ pc[h] = "write"
    /\ ep[h] = "call_mcp_tool"
    /\ IF CanWrite
       THEN /\ WriteLine(h)
            /\ Goto(h, "read")
            /\ UNCHANGED ep
       ELSE /\ Respond(h, ep[h], 200, ErrorBody(BrokenPipe), NoLine)
            /\ UNCHANGED procVars
    /\ UNCHANGED <<prog, readers>>

\* A call_mcp_tool that dispatches its request a second time when the reply
\* it read is a JSON-RPC error.
CallMcpToolReadRetrying(h) ==
    /\ Threaded
    /\ pc[h] = "read"
    /\ ep[h] = "call_mcp_tool"
    /\ CanRead
    /\ \E t \in ReplyTexts :
         IF stdout # <<>> /\ Loads(t).ok /\ HasKey(Loads(t).v, "error")
         THEN /\ stdout' = Tail(stdout)
              /\ nr' = nr + 1
              /\ stdin' = Append(stdin, h)
              /\ nw' = nw + 1
              /\ sent' = [sent EXCEPT ![h] = [gen |-> mcp_process, no |-> nw + 1]]
              /\ out' = NoOut
              /\ Serving
              /\ UNCHANGED <<mcp_process, started, running, pc, ep, launch, mainVars>>
         ELSE /\ ReadLine
              /\ Respond(h, ep[h], 200, CallMcpToolReturn(LineRead(t).text), LineRead(t))
    /\ UNCHANGED <<prog, readers>>

\* call_mcp_tool, lines 131-170, and the caller's answer (lines 198-201,
\* 208-211, 327-330): always status 200, the body is what call_mcp_tool returned.
CallMcpToolRead(h) ==
    /\ Threaded
    /\ pc[h] = "read"
    /\ ep[h] = "call_mcp_tool"
    /\ CanRead
    /\ ReadLine
    /\ \E t \in ReplyTexts :
         Respond(h, ep[h], 200, CallMcpToolReturn(LineRead(t).text), LineRead(t))
    /\ UNCHANGED <<prog, readers>>

\* do_GET, /tools, lines 215-231 (and 257-262 when the write raises): the
\* handle is not tested before the write.
GetToolsWrite(h) ==
    /\ Threaded
    /\ Idle(h)
    /\ IF CanWrite
       THEN /\ WriteLine(h)
            /\ ep' = [ep EXCEPT ![h] = "GET /tools"]
            /\ Goto(h, "read")
       ELSE /\ Respond(h, "GET /tools", 500, ErrorBody(BrokenPipe), NoLine)
            /\ UNCHANGED procVars
    /\ UNCHANGED <<prog, readers>>

\* do_GET, /tools, lines 234-262.
GetToolsRead(h) ==
    /\ Threaded
    /\ pc[h] = "read"
    /\ ep[h] = "GET /tools"
    /\ CanRead
    /\ ReadLine
    /\ \E t \in ReplyTexts :
         Respond(h, ep[h], GetToolsReturn(LineRead(t).text).status,
                 GetToolsReturn(LineRead(t).text).body, LineRead(t))
    /\ UNCHANGED <<prog, readers>>

\* do_POST, /sse, lines 291-311: status 200 and the event-stream headers are
\* sent; handle_sse_request (lines 349-360, 363-378) passes a tools/list
\* envelope, and a tools/call envelope whose params have a name, to
\* stream_sse_response, whose first statement (line 390) tests the handle.
DoPostSse(h) ==
    /\ Threaded
    /\ Idle(h)
    /\ ep' = [ep EXCEPT ![h] = "POST /sse"]
    /\ Goto(h, IF Alive THEN "write" ELSE "popen")
    /\ UNCHANGED <<prog, readers, procVars, sent>>

\* HTTPMCPClient.call_tool of pr_workflow_http_sse.py.  Its POST /tools/call
\* (lines 80-85, timeout=30) is served by a handler g that has written the
\* request line and is blocked in readline, which has no time limit: the
\* child process has not replied.  requests.post raises ReadTimeout, a
\* RequestException, and the except clause (lines 98-101) calls
\* call_tool_sse, whose POST /sse with method tools/call for the same tool
\* and arguments (lines 107-137) is served by handler h.  Handler g goes on:
\* nothing tells it that its client has given up.
CallToolSseFallback(h) ==
    /\ Threaded
    /\ Idle(h)
    /\ fallback = NoFallback
    /\ \E g \in Handlers : ep[g] = "call_mcp_tool" /\ pc[g] = "read"
    /\ fallback' = h
    /\ ep' = [ep EXCEPT ![h] = "POST /sse"]
    /\ pc' = [pc EXCEPT ![h] = IF Alive THEN "write" ELSE "popen"]
    /\ out' = NoOut
    /\ UNCHANGED <<prog, readers, procVars, sent, main, httpd, signals>>

\* handle_sse_request, lines 364-366 (tools/call without a name) and 380-383
\* (a method that is neither tools/list nor tools/call).
RejectedSse == {[ep |-> "POST /sse tools/call without name", msg |-> "Tool name is required"],
                [ep |-> "POST /sse resources/list", msg |-> "Unsupported method: resources/list"]}
ErrorEventFor(id, msg) == [event |-> "error", data |-> SseErrorText(id, msg)]

\* send_sse_error is called with the request id of line 344; the client
\* receives the error event, or has gone.
DoPostSseRejected(h) ==
    /\ Threaded
    /\ Idle(h)
    /\ \E r \in RejectedSse, s \in SuppliedIds :
         \/ Finish(h, r.ep, s, 200, NoBody, <<ErrorEventFor(SseRequestId(s, h), r.msg)>>, NoLine, FALSE)
         \/ Finish(h, r.ep, s, 200, NoBody, <<>>, NoLine, TRUE)
    /\ UNCHANGED <<prog, readers, procVars>>

\* handle_sse_request, line 364, for a tools/call envelope whose params are
\* null (or a number): `"name" not in params` raises TypeError, which nothing
\* catches.  The status line and the headers were sent (lines 302-308); the
\* handler ends and the connection is closed without an event.
DoPostSseParamsNull(h) ==
    /\ Threaded
    /\ Idle(h)
    /\ Finish(h, "POST /sse tools/call params null", NoId, 200, NoBody, <<>>, NoLine, FALSE)
    /\ UNCHANGED <<prog, readers, procVars>>

\* stream_sse_response, lines 397-402 (and 426-429 when the write raises).
StreamSseWrite(h) ==
    /\ Threaded
    /\ pc[h] = "write"
    /\ ep[h] = "POST /sse"
    /\ IF CanWrite
       THEN /\ WriteLine(h)
            /\ Goto(h, "read")
            /\ UNCHANGED ep
       ELSE /\ SendSseError(h, ep[h], BrokenPipe, NoLine)
            /\ UNCHANGED procVars
    /\ UNCHANGED <<prog, readers>>

\* What stream_sse_response does with the line it read (lines 407-413): the
\* message of the error event it sends, or "" when it goes on to the data event.
SseReadError(line) ==
    IF line = "" THEN "No response from MCP server"
    ELSE IF ~Loads(line).ok THEN Loads(line).msg
    ELSE ""

\* The payload of the data event (line 416).
SseEventData(line) == Dumps(Loads(line).v)

\* A stream that is ended before its data event is written.
SseStreamEndFirst(h, line) ==
    Complete(h, ep[h], 200, NoBody, <<EndEvent, DataEvent(SseEventData(line.text))>>, line, FALSE)

\* stream_sse_response, lines 416-424, for a line that parsed: the data event,
\* then the end event.  The client may have gone before either.
SseStream(h, line) ==
    \/ Complete(h, ep[h], 200, NoBody, <<DataEvent(SseEventData(line.text)), EndEvent>>, line, FALSE)
    \/ ClientGone(h, <<DataEvent(SseEventData(line.text))>>, line)
    \/ ClientGone(h, <<>>, line)

\* stream_sse_response, lines 405-429.
StreamSseRead(h) ==
    /\ Threaded
    /\ pc[h] = "read"
    /\ ep[h] = "POST /sse"
    /\ CanRead
    /\ ReadLine
    /\ \E t \in ReplyTexts :
         IF SseReadError(LineRead(t).text) = ""
         THEN SseStream(h, LineRead(t))
         ELSE SendSseError(h, ep[h], SseReadError(LineRead(t).text), LineRead(t))
    /\ UNCHANGED <<prog, readers>>

(***************************************************************************)
(* http_wrapper.py: HTTPServer (main, line 215) handles one request at a   *)
(* time, so a handler starts only when no other handler is at work.        *)
(***************************************************************************)
Wrapper == prog = "http_wrapper"

\* A server that starts a handler whatever the other handlers are doing; the
\* FIFO property of the one-at-a-time programs rests on Serial, not on this.
Overlapping(h) == TRUE

\* No handler other than h is between its first and its last statement.
Serial(h) == \A g \in Handlers \ {h} : pc[g] \in {"idle", "done"}

\* do_GET, lines 42-46.
WrapperDoGetHealth(h) ==
    /\ Wrapper
    /\ Idle(h)
    /\ Serial(h)
    /\ Respond(h, "GET /health", 200, JObj([status |-> JStr("ok")]), NoLine)
    /\ UNCHANGED <<prog, readers, procVars>>

\* do_POST, /sse, lines 57-72 for a body that is JSON: the handle is tested
\* (line 70) and start_mcp_server is called when the process has exited.
WrapperDoPost(h) ==
    /\ Wrapper
    /\ Idle(h)
    /\ Serial(h)
    /\ ep' = [ep EXCEPT ![h] = "POST /sse"]
    /\ Goto(h, IF Alive THEN "write" ELSE "popen")
    /\ UNCHANGED <<prog, readers, procVars, sent>>

\* do_POST, /sse, lines 65-67 and 110-115 for a body that is not JSON.
WrapperDoPostInvalid(h) ==
    /\ Wrapper
    /\ Idle(h)
    /\ Serial(h)
    /\ Respond(h, "POST /sse invalid JSON", 400, ErrorBody("Invalid JSON"), NoLine)
    /\ UNCHANGED <<prog, readers, procVars>>

\* start_mcp_server, lines 144-155: Popen, then one second of sleep.
WrapperStartPopen(h) ==
    /\ Wrapper
    /\ pc[h] = "popen"
    /\ Popen
    /\ Goto(h, "grace")
    /\ UNCHANGED <<prog, readers, ep, sent>>

\* start_mcp_server, lines 158-174, and its call at line 72, which drops the
\* value returned: do_POST goes on to the write whether the start succeeded
\* or not.
WrapperStartPoll(h) ==
    /\ Wrapper
    /\ pc[h] = "grace"
    /\ Goto(h, "write")
    /\ readers' = IF Alive THEN Append(readers, mcp_process) ELSE readers
    /\ UNCHANGED <<prog, procVars, ep, sent>>

\* do_POST, lines 75-80 (and 116-121 when the write raises).
WrapperWrite(h) ==
    /\ Wrapper
    /\ pc[h] = "write"
    /\ IF CanWrite
       THEN /\ WriteLine(h)
            /\ Goto(h, "read")
            /\ UNCHANGED ep
       ELSE /\ Respond(h, ep[h], 500, ErrorBody(BrokenPipe), NoLine)
            /\ UNCHANGED procVars
    /\ UNCHANGED <<prog, readers>>

\* do_POST, lines 84-121: the answer for the line read.  A line that is not
\* JSON raises JSONDecodeError, which the handler of line 110 answers with 400.
\* The data event is the only event written; the client may have gone.
WrapperAnswer(h, line) ==
    IF line.text = "" THEN Respond(h, ep[h], 500, ErrorBody("No response from MCP server"), line)
    ELSE IF ~Loads(line.text).ok THEN Respond(h, ep[h], 400, ErrorBody("Invalid JSON"), line)
    ELSE \/ Complete(h, ep[h], 200, NoBody, <<DataEvent(Dumps(Loads(line.text).v))>>, line, FALSE)
         \/ Complete(h, ep[h], 200, NoBody, <<>>, line, TRUE)

\* do_POST, lines 84-121.
WrapperRead(h) ==
    /\ Wrapper
    /\ pc[h] = "read"
    /\ CanRead
    /\ ReadLine
    /\ \E t \in ReplyTexts : WrapperAnswer(h, LineRead(t))
    /\ UNCHANGED <<prog, readers>>

(***************************************************************************)
(* stdio_test.py: GitHubMCPClient, whose calls are made one after another  *)
(* by main (lines 269-323).  An answer's body is the value the call        *)
(* returned (None is JNull); there is no HTTP status (0).                  *)
(***************************************************************************)
Client == prog = "stdio_test"

\* A parse_response that returns the envelope it was given instead of
\* unwrapping its result.
ParseResponseReturnsEnvelope(response) ==
    IF HasKey(response, "error") THEN JNull
    ELSE IF ~HasKey(response, "result") THEN EmptyObj
    ELSE response

\* The index of the first item of `items` whose type is "text" and whose text
\* parses as JSON, 0 if none.
FirstParsableIndex(items) ==
    LET hits == {i \in 1..Len(items) : /\ Get(items[i], "type", JNull) = JStr("text")
                                       /\ Loads(Get(items[i], "text", JStr("")).s).ok}
    IN  IF hits = {} THEN 0 ELSE CHOOSE i \in hits : \A j \in hits : i <= j

\* A parse_response that goes on to later text items when the text of the
\* first one is not JSON.
ParseResponseFirstParsable(response) ==
    IF HasKey(response, "error") THEN JNull
    ELSE IF ~HasKey(response, "result") THEN EmptyObj
    ELSE LET result == response.o.result
         IN  IF HasKey(result, "content") /\ IsArr(result.o.content)
             THEN LET items == result.o.content.a
                      i == FirstTextIndex(items)
                      j == FirstParsableIndex(items)
                  IN  IF i = 0 THEN result
                      ELSE IF j = 0 THEN JStr(Get(items[i], "text", JStr("")).s)
                      ELSE Loads(items[j].o.text.s).v
             ELSE result

\* parse_response (stdio_test.py lines 36-76).
ParseResponse(response) ==
    IF HasKey(response, "error") THEN JNull
    ELSE IF ~HasKey(response, "result") THEN EmptyObj
    ELSE LET result == response.o.result
         IN  IF HasKey(result, "content") /\ IsArr(result.o.content)
             THEN LET items == result.o.content.a
                      i == FirstTextIndex(items)
                  IN  IF i = 0 THEN result
                      ELSE LET text == Get(items[i], "text", JStr("")).s
                               p == Loads(text)
                           IN  IF p.ok THEN p.v ELSE JStr(text)
             ELSE result

\* call_tool, lines 176-200: the value returned for the line read.
CallToolReturn(line) ==
    IF line = "" THEN JNull
    ELSE IF ~Loads(line).ok THEN JNull
    ELSE ParseResponse(Loads(line).v)

\* list_tools, lines 229-253: the value returned for the line read.
ListToolsReturn(line) ==
    IF line = "" THEN JNull
    ELSE IF ~Loads(line).ok THEN JNull
    ELSE IF HasKey(Loads(line).v, "result") /\ HasKey(Loads(line).v.o.result, "tools")
         THEN Loads(line).v.o.result.o.tools
    ELSE JArr(<<>>)

\* call_tool, line 150 (get_me and search_repositories call it, lines 202-208).
ClientCallTool(h) ==
    /\ Client
    /\ Idle(h)
    /\ Serial(h)
    /\ ep' = [ep EXCEPT ![h] = "call_tool"]
    /\ Goto(h, IF Alive THEN "write" ELSE "popen")
    /\ UNCHANGED <<prog, readers, procVars, sent>>

\* start_server, lines 103-114: Popen, then one second of sleep.
ClientStartServerPopen(h) ==
    /\ Client
    /\ pc[h] = "popen"
    /\ Popen
    /\ Goto(h, "grace")
    /\ UNCHANGED <<prog, readers, ep, sent>>

\* start_server, lines 117-135, and call_tool, lines 151-152.
ClientStartServerPoll(h) ==
    /\ Client
    /\ pc[h] = "grace"
    /\ IF Alive
       THEN /\ Goto(h, "write")
            /\ UNCHANGED <<ep, sent>>
       ELSE Respond(h, ep[h], 0, JNull, NoLine)
    /\ UNCHANGED <<prog, readers, procVars>>

\* call_tool, lines 155-177 (and 198-200 when the write raises).
ClientCallToolWrite(h) ==
    /\ Client
    /\ pc[h] = "write"
    /\ IF CanWrite
       THEN /\ WriteLine(h)
            /\ Goto(h, "read")
            /\ UNCHANGED ep
       ELSE /\ Respond(h, ep[h], 0, JNull, NoLine)
            /\ UNCHANGED procVars
    /\ UNCHANGED <<prog, readers>>

\* call_tool, lines 180-200.
ClientCallToolRead(h) ==
    /\ Client
    /\ pc[h] = "read"
    /\ ep[h] = "call_tool"
    /\ CanRead
    /\ ReadLine
    /\ \E t \in ReplyTexts :
         Respond(h, ep[h], 0, CallToolReturn(LineRead(t).text), LineRead(t))
    /\ UNCHANGED <<prog, readers>>

\* list_tools, lines 212-226 (and 251-253 when the write raises): the process
\* is not tested before the write.
ClientListToolsWrite(h) ==
    /\ Client
    /\ Idle(h)
    /\ Serial(h)
    /\ IF CanWrite
       THEN /\ WriteLine(h)
            /\ ep' = [ep EXCEPT ![h] = "list_tools"]
            /\ Goto(h, "read")
       ELSE /\ Respond(h, "list_tools", 0, JNull, NoLine)
            /\ UNCHANGED procVars
    /\ UNCHANGED <<prog, readers>>

\* list_tools, lines 229-253.
ClientListToolsRead(h) ==
    /\ Client
    /\ pc[h] = "read"
    /\ ep[h] = "list_tools"
    /\ CanRead
    /\ ReadLine
    /\ \E t \in ReplyTexts :
         Respond(h, ep[h], 0, ListToolsReturn(LineRead(t).text), LineRead(t))
    /\ UNCHANGED <<prog, readers>>

(***************************************************************************)
(* rukn_altasawoq/quote_engine/processor.py: create_quote_from_url.  A      *)
(* float is modelled by the decimal number it stands for, counted in        *)
(* thousandths; for the values used the floating-point operations of the    *)
(* function give exactly the decimal results (1 + 0.35 + 0.15 is 1.5,       *)
(* 0.35 * 100 is 35.0, 0.15 * 100 is 15.0).                                 *)
(***************************************************************************)
Processor == prog = "processor"

\* 1.0, and the product of two decimal numbers.
One == 1000
Times(a, b) == (a * b) \div One

\* Lines 31 and 32: 0.35 and 0.15.
markup == 350
tax == 150

\* What get_product_price_from_url returns: 100.0, or 0.0 when the request
\* failed (lines 20 and 23); 19.99 is the price of a test double, as in
\* test_quote_engine.py, whose double returns 100.0.
Prices == {0, 100 * One, (1999 * One) \div 100}
CustomerIds == {"test_customer", "c-2"}
ProductUrls == {"http://example.com/product", "http://example.com/other"}

\* A quote whose markup and tax are compounded.
CreateQuoteCompounded(customer_id, product_url, price) ==
    JObj([customer_id |-> JStr(customer_id),
          product_links |-> JArr(<<JStr(product_url)>>),
          quote_price |-> JNum(price),
          markup_percentage |-> JNum(markup * 100),
          tax |-> JNum(tax * 100),
          final_price |-> JNum(Times(Times(price, One + markup), One + tax)),
          status |-> JStr("Pending")])

\* Lines 31-47: the Quote built from the price fetched.
CreateQuote(customer_id, product_url, price) ==
    JObj([customer_id |-> JStr(customer_id),
          product_links |-> JArr(<<JStr(product_url)>>),
          quote_price |-> JNum(price),
          markup_percentage |-> JNum(markup * 100),
          tax |-> JNum(tax * 100),
          final_price |-> JNum(Times(price, One + markup + tax)),
          status |-> JStr("Pending")])

\* create_quote_from_url (lines 25-47): the answer is the Quote returned;
\* the arguments and the price fetched (line 29) are recorded with it.
CreateQuoteFromUrl(h) ==
    /\ Processor
    /\ Idle(h)
    /\ \E c \in CustomerIds, u \in ProductUrls, p \in Prices :
         Finish(h, "create_quote_from_url", [customer_id |-> c, product_url |-> u, price |-> p],
                0, CreateQuote(c, u, p), <<>>, NoLine, FALSE)
    /\ UNCHANGED <<prog, readers, procVars>>

(***************************************************************************)
(* The unwrapping of `result` in the two other clients.                     *)
(***************************************************************************)
\* GitHubMCPClient.call_tool of pr_workflow_fixed.py, lines 141-155: the text
\* parsed is item.get("text", "{}"), the text returned when that fails is
\* item.get("text", "").
PrWorkflowCallToolNormalize(result) ==
    IF HasKey(result, "content") /\ IsArr(result.o.content)
    THEN LET items == result.o.content.a
             i == FirstTextIndex(items)
         IN  IF i = 0 THEN result
             ELSE LET p == Loads(Get(items[i], "text", JStr("{}")).s)
                  IN  IF p.ok THEN p.v ELSE Get(items[i], "text", JStr(""))
    ELSE result

\* HTTPMCPClient.call_tool_sse of pr_workflow_http_sse.py, lines 153-167: what
\* it returns for a data event whose JSON has a `result` member.
CallToolSseNormalize(result) ==
    IF HasKey(result, "content") /\ IsArr(result.o.content)
    THEN LET items == result.o.content.a
             i == FirstTextIndex(items)
         IN  IF i = 0 THEN result
             ELSE LET text == Get(items[i], "text", JStr("")).s
                      p == Loads(text)
                  IN  IF p.ok THEN p.v ELSE JStr(text)
    ELSE result

(***************************************************************************)
(* response_parser_demo.py: main (lines 82-190) applies parse_response     *)
(* (lines 22-80, the same statements as those of stdio_test.py) to          *)
(* responses it builds.  The responses here are of the shapes main builds   *)
(* (a direct result, a content list, an error) and content lists of more    *)
(* than one item.                                                           *)
(***************************************************************************)
Demo == prog = "response_parser_demo"

\* A content item that is not text, and a text item without a `text` member.
ImageItem == JObj([type |-> JStr("image"), data |-> JStr("iVBORw0KGgo=")])
BareTextItem == JObj([type |-> JStr("text")])

\* The content lists of the responses.
DemoContents ==
    {<<>>, <<ImageItem>>,
     <<TextItem(T_login)>>, <<TextItem(T_plain)>>, <<TextItem(T_nested)>>,
     <<ImageItem, TextItem(T_login)>>,
     <<ImageItem, TextItem(T_plain), TextItem(T_login)>>,
     <<TextItem(T_plain), TextItem(T_login)>>,
     <<TextItem(T_login), TextItem(T_plain)>>,
     <<BareTextItem, TextItem(T_login)>>}

DemoResponses ==
    {ResultEnvelope(JObj([content |-> JArr(items)])) : items \in DemoContents}
      \cup {ResultEnvelope(V_login), ResultEnvelope(R_tools),
            ErrorEnvelope(E_boom), NoResultEnvelope}

\* parse_response(response), as main calls it (lines 120, 125, 130, 165 and
\* 179): the answer is the value returned, recorded with the response.
ParseResponseCall(h) ==
    /\ Demo
    /\ Idle(h)
    /\ \E response \in DemoResponses :
         Finish(h, "parse_response", response, 0, ParseResponse(response), <<>>, NoLine, FALSE)
    /\ UNCHANGED <<prog, readers, procVars>>

(***************************************************************************)
(* token_helper.py: get_github_token (lines 15-37).  A text is the         *)
(* sequence of its characters.  The token file ~/.github_token is absent   *)
(* or has a content; GITHUB_PERSONAL_ACCESS_TOKEN is unset or has a value. *)
(***************************************************************************)
TokenHelper == prog = "token_helper"

\* The longest content and value, and the characters they are made of.
MaxLen == 3
Chars == {"g", " ", "\n"}
\* What str.strip() removes.
Whitespace == {" ", "\n", "\t", "\r"}
Texts == UNION {[1..n -> Chars] : n \in 0..MaxLen}

RECURSIVE LStrip(_)
LStrip(s) == IF s # <<>> /\ Head(s) \in Whitespace THEN LStrip(Tail(s)) ELSE s
RECURSIVE RStrip(_)
RStrip(s) ==
    IF s # <<>> /\ s[Len(s)] \in Whitespace THEN RStrip(SubSeq(s, 1, Len(s) - 1)) ELSE s
Strip(s) == RStrip(LStrip(s))

NoFile == [exists |-> FALSE]
File(content) == [exists |-> TRUE, content |-> content]
Unset == [set |-> FALSE]
Value(v) == [set |-> TRUE, v |-> v]
Token(s) == [k |-> "str", s |-> s]

\* A get_github_token that returns the stripped content of any file there is.
GetGithubTokenOfAnyFile(file, env) ==
    IF file.exists THEN Token(Strip(file.content))
    ELSE IF env.set /\ env.v # <<>> THEN Token(env.v)
    ELSE JNull

\* Lines 22-37: the value returned; None is JNull.
GetGithubToken(file, env) ==
    IF file.exists /\ Strip(file.content) # <<>> THEN Token(Strip(file.content))
    ELSE IF env.set /\ env.v # <<>> THEN Token(env.v)
    ELSE JNull

\* get_github_token(): the answer is the value returned and the token file
\* as the call leaves it (the function opens it for reading only, line 24);
\* the file and the variable it found are recorded with it.  One call is
\* followed: the function keeps nothing from one call to the next.
GetGithubTokenCall(h) ==
    /\ TokenHelper
    /\ h = 1
    /\ Idle(h)
    /\ \E content \in Texts \cup {<<"absent">>}, v \in Texts \cup {<<"unset">>} :
         LET file == IF content = <<"absent">> THEN NoFile ELSE File(content)
             env == IF v = <<"unset">> THEN Unset ELSE Value(v)
         IN  Finish(h, "get_github_token", [file |-> file, env |-> env], 0,
                    [returned |-> GetGithubToken(file, env), token_file |-> file],
                    <<>>, NoLine, FALSE)
    /\ UNCHANGED <<prog, readers, procVars>>

(***************************************************************************)
(* main and stop_mcp_server (http_mcp_wrapper.py 87-99 and 468-498,         *)
(* http_wrapper.py 176-188 and 212-230), and the `with` block of            *)
(* stdio_test.py (lines 137-147, 255-262 and 269).                          *)
(***************************************************************************)
\* The two scripts that serve HTTP.
Gateway == Threaded \/ Wrapper

\* No handler is between its first and its last statement.
Quiescent == \A h \in Handlers : pc[h] \in {"idle", "done"}

\* main goes on to `next`; no handler moves.
MainStep(next) ==
    /\ main' = next
    /\ out' = NoOut
    /\ UNCHANGED <<prog, readers, pc, ep, sent, fallback>>

\* The try block of main up to serve_forever (http_mcp_wrapper.py 469-484,
\* http_wrapper.py 213-221): the server object is created and bound to the
\* port and main serves, or the constructor raises OSError (the port is in
\* use) and httpd stays unbound.
MainCreateServer ==
    /\ Gateway
    /\ main = "create"
    /\ \/ httpd' = 1 /\ MainStep("serve")
       \/ httpd' = httpd /\ MainStep("finally")
    /\ UNCHANGED <<procVars, signals>>

\* serve_forever ends with KeyboardInterrupt or with another exception.  In
\* http_wrapper.py the handler at work, if any, runs on main's own thread and is
\* unwound where it stands.  In http_mcp_wrapper.py the handlers run on
\* threads that are not daemons, and server_close (line 494) waits for them:
\* the step is taken when none is at work.
MainInterrupt ==
    /\ Gateway
    /\ Serving
    /\ Threaded => Quiescent
    /\ MainStep("finally")
    /\ UNCHANGED <<procVars, httpd, signals>>

\* http_mcp_wrapper.py, the finally clause of main, lines 490-498: whatever
\* server_close raises (NameError when httpd is unbound) is swallowed.
MainFinally ==
    /\ Threaded
    /\ main = "finally"
    /\ MainStep("stop")
    /\ UNCHANGED <<procVars, httpd, signals>>

\* http_wrapper.py, the finally clause of main, lines 225-230: httpd.shutdown()
\* is not guarded.  With httpd unbound it raises UnboundLocalError, which ends
\* main before the call of stop_mcp_server; after serve_forever it returns.
WrapperMainFinally ==
    /\ Wrapper
    /\ main = "finally"
    /\ IF httpd = 0 THEN MainStep("ended") ELSE MainStep("stop")
    /\ UNCHANGED <<procVars, httpd, signals>>

\* GitHubMCPClient.__exit__ (stdio_test.py 260-262): main leaves the `with`
\* block, between two calls or after the last, and stop_server is called.
ClientExit ==
    /\ Client
    /\ Serving
    /\ Quiescent
    /\ MainStep("stop")
    /\ UNCHANGED <<procVars, httpd, signals>>

(***************************************************************************)
(* simple_stdio_test.py: a script without functions.  Its try block (lines *)
(* 27-114) sends one request and reads one line; its finally clause (lines *)
(* 120-129) is stop_mcp_server written out: terminate() when poll() is      *)
(* None, wait(timeout=5), kill() on TimeoutExpired.  The status of an       *)
(* answer is the exit status the script is heading for.                     *)
(***************************************************************************)
Script == prog = "simple_stdio_test"

\* Lines 67-68: the write; BrokenPipeError is caught at line 116, where the
\* script calls sys.exit(1).
ScriptWrite(h) ==
    /\ Script
    /\ h = 1
    /\ Idle(h)
    /\ IF CanWrite
       THEN /\ WriteLine(h)
            /\ Goto(h, "read")
            /\ ep' = [ep EXCEPT ![h] = "get_me"]
       ELSE /\ Respond(h, "get_me", 1, JNull, NoLine)
            /\ UNCHANGED procVars
    /\ UNCHANGED <<prog, readers>>

\* Lines 72-114: sys.exit(1) when readline returned "" (line 76) and for a
\* JSON-RPC error (line 89); json.loads raises for a line that is not JSON and
\* line 118 calls sys.exit(1); the try block ends otherwise.
ScriptExitStatus(line) ==
    IF line = "" \/ ~Loads(line).ok THEN 1
    ELSE IF HasKey(Loads(line).v, "error") THEN 1
    ELSE 0
ScriptRead(h) ==
    /\ Script
    /\ pc[h] = "read"
    /\ CanRead
    /\ ReadLine
    /\ \E t \in ReplyTexts :
         Respond(h, "get_me", ScriptExitStatus(LineRead(t).text), JNull, LineRead(t))
    /\ UNCHANGED <<prog, readers>>

\* A script whose way out of the try block ends it there.
ScriptEndsWithoutFinally ==
    /\ Script
    /\ Serving
    /\ pc[1] = "done"
    /\ MainStep("ended")
    /\ UNCHANGED <<procVars, httpd, signals>>

\* Lines 116-120: the try block is left, by its end, by SystemExit (which
\* `except Exception` does not catch) or by the sys.exit(1) of the except
\* clause, and the finally clause begins.
ScriptFinally ==
    /\ Script
    /\ Serving
    /\ pc[1] = "done"
    /\ MainStep("stop")
    /\ UNCHANGED <<procVars, httpd, signals>>

\* A stop that kills at once, without the graceful signal and the wait.
StopMcpServerKillFirst ==
    /\ main = "stop"
    /\ IF Alive
       THEN /\ signals' = Append(signals, "SIGKILL")
            /\ running' = running \ {mcp_process}
       ELSE UNCHANGED <<signals, running>>
    /\ MainStep("ended")
    /\ UNCHANGED <<mcp_process, started, stdin, stdout, nw, nr, launch, httpd>>

\* stop_mcp_server, lines 91-93 (stop_server, lines 139-141): terminate() when
\* the handle is set and poll() is None; nothing at all otherwise.
StopMcpServer ==
    /\ main = "stop"
    /\ IF Alive
       THEN /\ signals' = Append(signals, "SIGTERM")
            /\ MainStep("wait")
       ELSE /\ UNCHANGED signals
            /\ MainStep("ended")
    /\ UNCHANGED <<procVars, httpd>>

\* The process exits on SIGTERM; a process may also ignore the signal.
ProcTerminated ==
    /\ signals # <<>>
    /\ Alive
    /\ running' = running \ {mcp_process}
    /\ out' = NoOut
    /\ UNCHANGED <<prog, readers, mcp_process, started, stdin, stdout, nw, nr, pc, ep, sent, launch, mainVars>>

\* stop_mcp_server, lines 94-99 (stop_server, lines 142-147): wait(timeout=5)
\* returns when the process has exited; when the five seconds pass first it
\* raises TimeoutExpired and kill() is called.  SIGKILL cannot be caught: the
\* process is gone.
StopMcpServerWait ==
    /\ main = "wait"
    /\ IF Alive
       THEN /\ signals' = Append(signals, "SIGKILL")
            /\ running' = running \ {mcp_process}
       ELSE UNCHANGED <<signals, running>>
    /\ MainStep("ended")
    /\ UNCHANGED <<mcp_process, started, stdin, stdout, nw, nr, launch, httpd>>

(***************************************************************************)
(* The specification.                                                      *)
(***************************************************************************)
\* The steps of handler h.
HandlerNext(h) ==
    \/ DoGetHealth(h)
    \/ DoGetNotFound(h)
    \/ DoPostRejected(h)
    \/ DoPostNotMapping(h)
    \/ DoGetUser(h)
    \/ DoGetSearchRepositories(h)
    \/ DoPostToolsCall(h)
    \/ StartMcpServerPopen(h)
    \/ StartMcpServerPoll(h)
    \/ CallMcpToolWrite(h)
    \/ CallMcpToolRead(h)
    \/ GetToolsWrite(h)
    \/ GetToolsRead(h)
    \/ DoPostSse(h)
    \/ DoPostSseRejected(h)
    \/ DoPostSseParamsNull(h)
    \/ StreamSseWrite(h)
    \/ StreamSseRead(h)
    \/ WrapperDoGetHealth(h)
    \/ WrapperDoPost(h)
    \/ WrapperDoPostInvalid(h)
    \/ WrapperStartPopen(h)
    \/ WrapperStartPoll(h)
    \/ WrapperWrite(h)
    \/ WrapperRead(h)
    \/ ClientCallTool(h)
    \/ ClientStartServerPopen(h)
    \/ ClientStartServerPoll(h)
    \/ ClientCallToolWrite(h)
    \/ ClientCallToolRead(h)
    \/ ClientListToolsWrite(h)
    \/ ClientListToolsRead(h)
    \/ CreateQuoteFromUrl(h)
    \/ ParseResponseCall(h)
    \/ CallToolSseFallback(h)
    \/ GetGithubTokenCall(h)
    \/ ScriptWrite(h)
    \/ ScriptRead(h)

Next ==
    \/ ProcReply
    \/ ProcExit
    \/ ProcTerminated
    \/ MainCreateServer
    \/ MainInterrupt
    \/ MainFinally
    \/ WrapperMainFinally
    \/ ClientExit
    \/ ScriptFinally
    \/ StopMcpServer
    \/ StopMcpServerWait
    \/ ReadStderrEnds
    \/ \E h \in Handlers : HandlerNext(h)

Spec == Init /\ [][Next]_vars

\* A handler that has begun runs on its own thread (or is the only thing the
\* program does): it takes its next step whenever that step stays possible.
\* Nothing obliges the child process to reply, or a request to arrive.
Progress(h) == pc[h] # "idle" /\ HandlerNext(h)
FairSpec == Spec /\ \A h \in Handlers : WF_vars(Progress(h))

(***************************************************************************)
(* Properties.                                                             *)
(***************************************************************************)
\* The step just taken completed an answer.
Answered == out.h # 0
\* The handlers that have written a request line and not yet read a line.
InFlight == {h \in Handlers : pc[h] = "read"}
\* The events named `name` among `evs`.
EventsNamed(evs, name) == {i \in 1..Len(evs) : evs[i].event = name}
\* The answer just completed is that of an event stream of POST /sse whose
\* client stayed connected to the end.
SseAnswered == Answered /\ out.ep = "POST /sse" /\ ~out.aborted

\* C1: in the threaded gateway at most one request is in flight on the child
\* process: never have two handlers written a request line without either
\* having read its reply line.
C1_OneInFlight == Threaded => Cardinality(InFlight) <= 1

\* C2: in the threaded gateway the reply line a handler reads is the one the
\* child process wrote for the request line that same handler wrote.
C2_OwnReply ==
    (Threaded /\ Answered /\ out.got.re # 0) => out.got.re = out.h

\* C3: in the programs that handle one call at a time (http_wrapper.py,
\* GitHubMCPClient) at most one call is at work; while a call waits for its
\* reply every earlier request line written to the process has had its reply
\* read; and the k-th reply line read from a process is delivered to the call
\* that wrote the k-th request line to that process.
C3_Fifo ==
    ~Threaded =>
      /\ Cardinality({h \in Handlers : pc[h] \notin {"idle", "done"}}) <= 1
      /\ \A h \in InFlight :
           sent[h].gen = mcp_process /\ sent[h].no = nr + 1 /\ nw = nr + 1
      /\ (Answered /\ out.got.re # 0) =>
           /\ out.got.re = out.h
           /\ out.got.gen = out.sent.gen
           /\ out.got.no = out.sent.no

\* C3, its case: the second of two successive call_tool calls was delivered
\* the second reply line of the process.
C3_SecondCallAnswered ==
    Client /\ Answered /\ out.ep = "call_tool" /\ out.got.no = 2 /\ out.sent.no = 2

\* The line read for the answer just completed is JSON.
ReplyParsed == out.got.text # "" /\ Loads(out.got.text).ok
\* The stream is a data event carrying the reply that was read, then an end
\* event, and nothing else.
DataThenEnd ==
    /\ Len(out.events) = 2
    /\ out.events[1].event = "data"
    /\ Loads(out.events[1].data) = Loads(out.got.text)
    /\ out.events[2] = EndEvent

C6_EndsWithEnd ==
    (~Client /\ Answered /\ out.status = 200 /\ ~out.aborted
       /\ EventsNamed(out.events, "data") \cup EventsNamed(out.events, "error") # {}) =>
      EventsNamed(out.events, "end") = {Len(out.events)}

\* C7: when the reply to a POST /sse of the threaded gateway is a JSON-RPC
\* error, the stream carries one error event and no data event.
C7_ErrorReplyErrorEvent ==
    (Threaded /\ SseAnswered /\ ReplyParsed /\ HasKey(Loads(out.got.text).v, "error")) =>
      /\ Cardinality(EventsNamed(out.events, "error")) = 1
      /\ EventsNamed(out.events, "data") = {}

\* The answer of GET /health.
HealthBody == JObj([status |-> JStr("ok")])
\* Handler h answers GET /health in this step.
HealthStep(h) == pc[h] = "idle" /\ out'.h = h /\ out'.ep = "GET /health"

CallFailed ==
    \/ ~ReplyParsed
    \/ HasKey(Loads(out.got.text).v, "error")
\* An answer of call_mcp_tool's callers, POST /tools/call among them.
ToolsCallAnswered == Threaded /\ Answered /\ out.ep = "call_mcp_tool"

\* C9: POST /tools/call of the threaded gateway answers 200 only when the
\* call produced a result; when the call failed the status is 4xx or 5xx and
\* the body is {error: message}.
C9_FailureStatus ==
    ToolsCallAnswered =>
      IF CallFailed
      THEN /\ out.status \in 400..599
           /\ HasKey(out.body, "error") /\ DOMAIN out.body.o = {"error"}
      ELSE out.status = 200

\* C10: the body POST /tools/call of the threaded gateway returns for a
\* successful reply is normalize(result): the value parsed from the text of
\* the first text item of `content`, that text as a string when it is not
\* JSON, and result unchanged without such an item.  parse_response of
\* stdio_test.py computes exactly that value.
C10_BodyIsNormalizedResult ==
    (ToolsCallAnswered /\ ~CallFailed) => out.body = ParseResponse(Loads(out.got.text).v)

\* The value has a `content` list with an item of type "text".
HasTextItem(v) ==
    HasKey(v, "content") /\ IsArr(v.o.content) /\ FirstTextIndex(v.o.content.a) # 0
\* GitHubMCPClient.call_tool returned the value parse_response computed for a
\* reply with a `result` member.
ParsedResultReturned ==
    /\ Client /\ Answered /\ out.ep = "call_tool"
    /\ ReplyParsed /\ HasKey(Loads(out.got.text).v, "result")

BackendEndpoints == {"call_mcp_tool", "GET /tools", "POST /sse"}
\* Handler h takes the first step of a request dispatched to the child process.
BackendCallBegins(h) ==
    /\ ~Client
    /\ pc[h] = "idle" /\ pc'[h] # "idle"
    /\ ~(out'.h = h /\ out'.ep \notin BackendEndpoints)

\* C12: a call dispatched through a backend endpoint of a gateway after the
\* child process has exited relaunches the process before it writes: its
\* first step leads to Popen, never to a write to the exited process.
C12_RelaunchBeforeWrite ==
    [][\A h \in Handlers :
         (BackendCallBegins(h) /\ ~Alive) => pc'[h] = "popen"]_vars

\* C13: a handler of the threaded gateway that wrote its request line to one
\* process never reads a reply line from the stdout of another process.
C13_ReplyFromSameProcess ==
    (Threaded /\ Answered /\ out.got.re # 0) => out.got.gen = out.sent.gen

\* C14: the reply line the child process writes for a POST /tools/call whose
\* caller has given up (its handler still waits in readline) is never
\* delivered as the answer to a POST /sse request.
C14_LateReplyNotDelivered ==
    (Threaded /\ Answered /\ out.ep = "POST /sse" /\ out.got.re # 0) =>
      ~(/\ out.got.re # out.h
        /\ ep[out.got.re] = "call_mcp_tool"
        /\ pc[out.got.re] = "read")

\* C15: every call a gateway has dispatched completes: a handler that waits
\* for a reply line is resolved even when the child process runs on and never
\* writes one.
C15_WaitingHandlerResolved ==
    \A h \in Handlers : (~Client /\ pc[h] = "read") ~> (pc[h] = "done")

\* The reply line is JSON for an envelope with an `error` member.
IsErrorReply(t) == t # "" /\ Loads(t).ok /\ HasKey(Loads(t).v, "error")

\* C16: the error POST /tools/call reports for a JSON-RPC error reply carries
\* the upstream code and message unchanged: no reply whose error differs in
\* code or in message would have been reported as the same error.
C16_ErrorsReportedApart ==
    (ToolsCallAnswered /\ IsErrorReply(out.got.text)) =>
      \A t \in ReplyTexts :
        (IsErrorReply(t) /\ CallMcpToolReturn(t) = out.body) =>
          Loads(t).v.o.error = Loads(out.got.text).v.o.error

\* Handler h writes a request line in this step.
WritesRequest(h) == sent'[h] # sent[h] /\ sent'[h] # NoSent
\* Handler h reads a JSON-RPC error reply in this step and ends with it.
ErrorReplyStep(h) ==
    pc[h] = "read" /\ out'.h = h /\ IsErrorReply(out'.got.text)

\* C17: a tool-level error is not retried and does not touch the backend: a
\* call writes its request line once only, also when the reply is a JSON-RPC
\* error, and the step that reads the error reply writes nothing and neither
\* stops nor starts a process.
C17_ToolErrorNotRetried ==
    [][\A h \in Handlers :
         /\ WritesRequest(h) => sent[h] = NoSent
         /\ ErrorReplyStep(h) =>
              /\ pc'[h] = "done"
              /\ UNCHANGED <<mcp_process, started, running, stdin, nw>>]_vars

\* C17, its case: a call was answered for a JSON-RPC error reply and the
\* process that wrote it is still the running process.
C17_ErrorReplyAnswered ==
    /\ Answered /\ IsErrorReply(out.got.text)
    /\ out.got.re = out.h /\ out.got.gen = mcp_process /\ Alive

\* Handler h of a gateway ends in this step with a transport failure: its
\* write to the stdin of the child process raised, or its readline returned
\* the empty string.
TransportFailureReported(h) ==
    /\ ~Client
    /\ pc[h] \in {"write", "read"} \/ (pc[h] = "idle" /\ out'.h = h /\ out'.ep = "GET /tools")
    /\ out'.h = h
    /\ out'.got.text = ""

\* C18: a gateway call that meets a transport failure does not report it at
\* once: it goes on to restart the child process and to dispatch the request
\* once more.
C18_TransportFailureRetried ==
    [][\A h \in Handlers : ~TransportFailureReported(h)]_vars

\* The value returned to the caller of call_mcp_tool (a mapping with an
\* `error` member) or of GitHubMCPClient.call_tool (None) reports a failure.
ErrorValueReturned ==
    IF Client THEN out.body = JNull ELSE HasKey(out.body, "error")
\* The reply line read is not JSON, or is JSON without `result` and `error`.
MalformedReply(t) ==
    /\ t # ""
    /\ \/ ~Loads(t).ok
       \/ ~HasKey(Loads(t).v, "result") /\ ~HasKey(Loads(t).v, "error")

\* C19: when the reply line is not JSON, or is a JSON object that has neither
\* a `result` nor an `error` member, the caller of call_mcp_tool and of
\* GitHubMCPClient.call_tool receives an error, never a successful value.
C19_MalformedReplyFails ==
    (Answered /\ out.ep \in {"call_mcp_tool", "call_tool"} /\ MalformedReply(out.got.text)) =>
      ErrorValueReturned

\* C20: a call of a gateway whose start of the child process reported failure
\* (the launched process has exited when the grace delay has elapsed) ends
\* there with an error: it does not go on to the write of its request line.
C20_FailedStartNotDispatched ==
    [][\A h \in Handlers :
         (~Client /\ pc[h] = "grace" /\ ~Alive /\ pc'[h] # pc[h]) =>
           (pc'[h] = "done" /\ out'.h = h /\ UNCHANGED procVars)]_vars

\* C28: the threaded gateway owns at most one live child process: every
\* process it has started and that still runs is the one its handle refers
\* to, so stop_mcp_server can reach it.
C28_NoOrphanedChild ==
    Threaded => running \subseteq {mcp_process}

\* C25: GET /tools of the threaded gateway answers 200 with exactly the
\* `result` member of the reply line it read, and answers with an error
\* status and an {error: message} body when readline returned nothing, when
\* the line is not JSON, and when the line is a JSON-RPC error object.
C25_GetToolsAnswer ==
    (Threaded /\ Answered /\ out.ep = "GET /tools" /\ out.sent # NoSent) =>
      LET t == out.got.text
      IN  IF t = "" \/ ~Loads(t).ok \/ HasKey(Loads(t).v, "error")
          THEN out.status >= 400 /\ HasKey(out.body, "error")
          ELSE HasKey(Loads(t).v, "result") =>
                 (out.status = 200 /\ out.body = Loads(t).v.o.result)

\* C24: a handler of the threaded gateway whose client has gone after the
\* request line was written still reads one reply line, and that line is the
\* reply to its own request, written by the process it wrote to: the reply of
\* a disconnected caller is consumed by its own handler and by no other.
C24_DisconnectedReadsOwnReply ==
    (Threaded /\ Answered /\ out.aborted /\ out.sent # NoSent /\ out.got.re # 0) =>
      (out.got.re = out.h /\ out.got.gen = out.sent.gen)

\* C21: stop_mcp_server (stop_server) sends SIGTERM first, and only to a
\* process that has not exited; it sends SIGKILL only after SIGTERM and only
\* when the process has still not exited when the wait expires; it changes
\* nothing when the process has already exited; when it returns the handle's
\* process does not run, and from then on no request line is written, no reply
\* line is read, no process is started and no step completes an answer.
C21_StopTermThenKill ==
    [][/\ (signals' # signals) =>
            \/ /\ signals = <<>>
               /\ signals' = <<"SIGTERM">>
               /\ main = "stop" /\ Alive
               /\ UNCHANGED procVars
            \/ /\ signals = <<"SIGTERM">>
               /\ signals' = <<"SIGTERM", "SIGKILL">>
               /\ main = "wait" /\ Alive
       /\ (main \in {"stop", "wait"} /\ ~Alive /\ main' # main) =>
            (main' = "ended" /\ UNCHANGED <<procVars, signals>>)
       /\ (main \in {"stop", "wait"} /\ main' = "ended") => ~Alive'
       /\ (main = "ended") => (out'.h = 0 /\ UNCHANGED <<nw, nr, started>>)
      ]_vars

\* C21, its case: stop has returned after SIGTERM and, the process not having
\* exited within the wait, SIGKILL.
C21_StoppedByKill ==
    main = "ended" /\ signals = <<"SIGTERM", "SIGKILL">> /\ ~Alive

\* C22: the main of each gateway releases the child process on every path:
\* main ends only as stop_mcp_server returns, whether serve_forever ended with
\* a keyboard interrupt or another exception, or the HTTP server could not be
\* created or bound.
C22_MainEndsThroughStop ==
    [][(Gateway /\ main # "ended" /\ main' = "ended") => main \in {"stop", "wait"}]_vars

\* The values in the argument list of the last start of the child process.
LaunchArgs == {launch.args[i] : i \in DOMAIN launch.args}

C23_InFlightIdsDistinct ==
    Threaded =>
      \A g, h \in InFlight :
        (g # h /\ sent[g].gen = sent[h].gen) =>
          \A i \in RequestIds(g), j \in RequestIds(h) : i # j

\* The envelopes of POST /sse that are outside the closed method set: a
\* method other than tools/list and tools/call, and tools/call whose params
\* hold no tool name; and the message of the error event for each.
OutsideMethodSet ==
    {"POST /sse resources/list", "POST /sse tools/call without name",
     "POST /sse tools/call params null"}
OutsideMessage(e) ==
    IF e = "POST /sse resources/list" THEN "Unsupported method: resources/list"
    ELSE "Tool name is required"

\* C30: only tools/list and tools/call with a tool name reach the child
\* process through POST /sse of the threaded gateway.  An envelope with
\* another method, or a tools/call envelope whose params have no name, is
\* answered in one step that leaves the child process and its pipes as they
\* are; its client, if still connected, receives exactly one event, an `error`
\* event with code -32000 that carries the caller's id, or the generated id
\* when the caller gave none.  A request line that is written carries the
\* caller's id unchanged.
C30_ClosedMethodSet ==
    [][\A h \in Handlers :
         /\ (pc[h] = "idle" /\ pc'[h] # "idle" /\
             (ep'[h] \in OutsideMethodSet \/ (out'.h = h /\ out'.ep \in OutsideMethodSet))) =>
              /\ out'.h = h
              /\ UNCHANGED procVars
              /\ ~out'.aborted =>
                   LET id == IF out'.req \in CallerIds THEN out'.req ELSE Uuid4(h)
                   IN  out'.events =
                         <<[event |-> "error",
                            data |-> "{\"jsonrpc\": \"2.0\", \"id\": \"" \o id
                                     \o "\", \"error\": {\"code\": -32000, \"message\": \""
                                     \o OutsideMessage(out'.ep) \o "\"}}"]>>
         /\ (Threaded /\ ep[h] = "POST /sse" /\ pc[h] = "write" /\ pc'[h] = "read") =>
              \A s \in CallerIds : SseRequestId(s, h) = s
      ]_vars

\* The requests the threaded gateway turns away before any call of the child
\* process, with the status it answers each with.
HttpRejected ==
    [ep : {"POST body not JSON", "POST /sse without jsonrpc or method",
           "POST /tools/call without name"}, status : {400}]
    \cup [ep : {"GET unknown path", "POST unknown path"}, status : {404}]
HttpRejectedEndpoints ==
    {r.ep : r \in HttpRejected} \cup {"POST body not a mapping"}

\* C29: a request the threaded gateway rejects at the HTTP level (a POST body
\* that is not JSON, a POST /sse body without `jsonrpc` or `method`, a POST
\* /tools/call body without a tool name, an unknown GET or POST path) is
\* answered in a step that writes nothing to the child process, reads nothing
\* from it and neither starts nor restarts it; no event stream is opened, and
\* the answer is 400, or 404 for an unknown path, with an {error: message}
\* body.  The frame holds as well when the body is JSON but not a mapping and
\* the handler raises instead of answering.
C29_RejectedNoBackendCall ==
    [][\A h \in Handlers :
         (out'.h = h /\ out'.ep \in HttpRejectedEndpoints) =>
           /\ UNCHANGED procVars
           /\ pc[h] = "idle"
           /\ out'.sent = NoSent
           /\ out'.events = <<>>
           /\ \A r \in HttpRejected :
                r.ep = out'.ep => (out'.status = r.status /\ HasKey(out'.body, "error"))
      ]_vars

\* C29, its case: a POST /tools/call without a tool name was answered 400
\* while the child process had exited, and the process was not started anew.
C29_RejectedWhileExited ==
    /\ Answered
    /\ out.ep = "POST /tools/call without name"
    /\ out.status = 400
    /\ ~Alive

\* C27: create_quote_from_url returns, for the customer, the url and the
\* fetched price p it was given, a quote with that customer_id, that url as
\* its only product link, quote_price p, markup_percentage 35, tax 15, status
\* "Pending" and final_price p * 1.5: markup and tax are both applied to the
\* base price (150 for p = 100, where compounding gives 155.25).
C27_QuoteAdditive ==
    (Processor /\ Answered) =>
      LET q == out.body.o
          a == out.req
      IN  /\ q.customer_id = JStr(a.customer_id)
          /\ q.product_links = JArr(<<JStr(a.product_url)>>)
          /\ q.quote_price = JNum(a.price)
          /\ q.markup_percentage = JNum(35 * One)
          /\ q.tax = JNum(15 * One)
          /\ q.status = JStr("Pending")
          /\ q.final_price.n * 100 = a.price * 150
          /\ a.price = 100 * One => q.final_price = JNum(150 * One)

\* C27, its case: a quote was returned for the price 100.
C27_QuoteForHundred ==
    /\ Processor
    /\ Answered
    /\ out.req.price = 100 * One
    /\ out.body.o.final_price = JNum(150 * One)

\* parse_response has returned for a response whose result has a `content`
\* list.
ContentParsed ==
    /\ Demo /\ Answered /\ out.ep = "parse_response"
    /\ HasKey(out.req, "result")
    /\ HasKey(out.req.o.result, "content")
\* The items of that list, the index of its first text item (0 if none) and
\* the text of that item ("" when it has no `text` member).
ContentItems == out.req.o.result.o.content.a
FirstText == FirstTextIndex(ContentItems)
FirstTextOf(items) == Get(items[FirstTextIndex(items)], "text", JStr("")).s

\* C31: parse_response decides on the first content item of type "text"
\* only.  With no text item in the list the result is returned unchanged.
\* Otherwise the text of the first text item is returned parsed when it is
\* JSON and as the string itself when it is not, and the value returned is
\* the one returned for the list that holds that item alone: the items
\* before it and after it do not count.
C31_FirstTextItemDecides ==
    ContentParsed =>
      IF FirstText = 0 THEN out.body = out.req.o.result
      ELSE /\ out.body = IF Loads(FirstTextOf(ContentItems)).ok
                         THEN Loads(FirstTextOf(ContentItems)).v
                         ELSE JStr(FirstTextOf(ContentItems))
           /\ out.body = ParseResponse(ResultEnvelope(
                             JObj([content |-> JArr(<<ContentItems[FirstText]>>)])))

\* C31, its case: an image item, then a text that is not JSON, then a text
\* that is JSON: the text that is not JSON was returned as a string.
C31_LaterJsonTextIgnored ==
    /\ ContentParsed
    /\ ContentItems = <<ImageItem, TextItem(T_plain), TextItem(T_login)>>
    /\ out.body = JStr(T_plain)

\* call_mcp_tool, GitHubMCPClient.call_tool or parse_response has returned
\* for a response that has a `result` member.
Normalized ==
    /\ Answered
    /\ \/ Demo /\ out.ep = "parse_response" /\ HasKey(out.req, "result")
       \/ /\ out.ep \in {"call_mcp_tool", "call_tool"}
          /\ out.got.text # "" /\ Loads(out.got.text).ok
          /\ HasKey(Loads(out.got.text).v, "result")
\* That member, and what json.loads gives for the text of its first text item.
NormalizedResult ==
    IF Demo THEN out.req.o.result ELSE Loads(out.got.text).v.o.result
InnerValue == Loads(FirstTextOf(NormalizedResult.o.content.a))
\* The text of the first text item parsed to a content wrapper.
WrapperInText ==
    /\ Normalized /\ HasTextItem(NormalizedResult)
    /\ InnerValue.ok /\ HasTextItem(InnerValue.v)

\* C32: normalization unwraps at most one level.  When the text of the first
\* text item parses to a value that is itself a content wrapper,
\* parse_response and call_mcp_tool return that wrapper as it was parsed: it
\* still has its text item, whose text has not been parsed.
C32_OneLevelUnwrapped ==
    WrapperInText => (out.body = InnerValue.v /\ HasTextItem(out.body))

\* C32, its case: call_mcp_tool returned the wrapper that the text of a
\* doubly encoded reply parsed to.
C32_WrapperReturned ==
    /\ Threaded /\ WrapperInText /\ out.ep = "call_mcp_tool"
    /\ out.got.text = L_nested /\ out.body = R_json

\* C33: the copies of the normalization step are equivalent.  Whatever
\* response with a `result` one of them was applied to, the value it returned
\* is the value parse_response returns for that response, and for the
\* responses given to parse_response itself the other copies (call_mcp_tool,
\* GitHubMCPClient.call_tool of pr_workflow_fixed.py, call_tool_sse) return
\* that same value.
C33_CopiesEquivalent ==
    Normalized =>
      /\ out.body = ParseResponse(ResultEnvelope(NormalizedResult))
      /\ Demo => /\ out.body = CallMcpToolNormalize(NormalizedResult)
                 /\ out.body = PrWorkflowCallToolNormalize(NormalizedResult)
                 /\ out.body = CallToolSseNormalize(NormalizedResult)

\* C34: one call of HTTPMCPClient.call_tool causes at most one tools/call
\* request for its tool to be written to the child process: the handler of
\* its POST /tools/call has written the request line when the client falls
\* back, so the handler of the POST /sse of the fallback never writes the
\* request a second time.
C34_FallbackNeverDispatchesTwice ==
    fallback # NoFallback => pc[fallback] # "read"

\* No handler is between the Popen and the poll of start_mcp_server.
NoStartInProgress == \A h \in Handlers : pc[h] # "grace"

\* C35: while the child process of a gateway runs, exactly one read_stderr
\* thread drains its stderr, and that thread was started for that process:
\* there are never two threads, a thread started for one process never
\* reads the stderr of a later one, and a running process whose start has
\* been completed has its thread.  (The threads followed are those of
\* http_wrapper.py.)
C35_OneReaderPerProcess ==
    (Wrapper /\ Alive) =>
      /\ Len(readers) <= 1
      /\ \A i \in 1..Len(readers) : readers[i] = mcp_process
      /\ NoStartInProgress => Len(readers) = 1

\* The stdio client scripts: stdio_test.py and simple_stdio_test.py.
StdioScript == Client \/ Script

\* C36: a stdio client script that launched the child process terminates it
\* before the script ends, on every way out: when the script has ended no
\* process it launched is running, and what it sent to the process is
\* nothing (the process had exited), SIGTERM, or SIGTERM and then SIGKILL.
C36_ScriptStopsChild ==
    (StdioScript /\ main = "ended") =>
      /\ running = {}
      /\ signals \in {<<>>, <<"SIGTERM">>, <<"SIGTERM", "SIGKILL">>}

\* C36, its case: simple_stdio_test.py has left its try block with its child
\* process running, and has ended after terminating it.
C36_ScriptEndedAfterTerminate ==
    /\ Script /\ main = "ended" /\ pc[1] = "done"
    /\ signals # <<>> /\ signals[1] = "SIGTERM" /\ running = {}

\* get_github_token has returned.
TokenReturned == TokenHelper /\ Answered /\ out.ep = "get_github_token"
\* t is s without the white space at its two ends.
IsStripped(t, s) ==
    \E i \in 1..(Len(s) + 1), j \in 0..Len(s) :
      /\ t = SubSeq(s, i, j)
      /\ \A n \in 1..Len(s) : (n < i \/ n > j) => s[n] \in Whitespace
      /\ t # <<>> => (t[1] \notin Whitespace /\ t[Len(t)] \notin Whitespace)
\* The token file holds something other than white space.
FileHasToken == out.req.file.exists /\ \E n \in 1..Len(out.req.file.content) :
                                         out.req.file.content[n] \notin Whitespace
\* The environment variable is set to a value that is not empty.
EnvHasToken == out.req.env.set /\ out.req.env.v # <<>>

\* C37: get_github_token returns the stripped content of the token file when
\* the file exists and is not empty after stripping, otherwise the value of
\* GITHUB_PERSONAL_ACCESS_TOKEN when it is set and not empty, otherwise
\* None; it never returns an empty string and leaves the token file as it
\* found it.
C37_TokenFileThenEnvironment ==
    TokenReturned =>
      /\ FileHasToken =>
            /\ out.body.returned.k = "str"
            /\ IsStripped(out.body.returned.s, out.req.file.content)
      /\ (~FileHasToken /\ EnvHasToken) => out.body.returned = Token(out.req.env.v)
      /\ (~FileHasToken /\ ~EnvHasToken) => out.body.returned = JNull
      /\ out.body.returned # Token(<<>>)
      /\ out.body.token_file = out.req.file

\* C37, its case: the token file holds white space only and the variable is
\* set: the value of the variable was returned.
C37_BlankFileFallsBack ==
    /\ TokenReturned
    /\ out.req.file = File(<<" ", "\n">>)
    /\ out.req.env = Value(<<"g", "g">>)
    /\ out.body.returned = Token(<<"g", "g">>)

====
